---- MODULE Spec2Model ----
\* Model of the simple-dash report service: the batch merge of parse_report
\* (app/main.py), the format detector (app/parsers/detector.py) and the
\* key-value report parser parse_mailchimp (app/parsers/mailchimp.py).
EXTENDS Integers, Sequences, FiniteSets, TLC

VARIABLES
    file_contents,    \* the (filename, contents) pairs the file loop has taken so far
    results,          \* main.py:94
    errors,           \* main.py:95
    campaigns_by_id,  \* main.py:96, an insertion-ordered dict
    file_index,       \* main.py:97
    pc,               \* "loop" in the file loop, "done" after the return, "idle" otherwise
    lines,            \* mailchimp.py:41, the stripped non-blank lines of the text
    idx,              \* position of the line loop of mailchimp.py:68
    data,             \* mailchimp.py:43
    campaign_title,   \* mailchimp.py:66
    id_args,          \* the arguments of the generate_unique_id call, mailchimp.py:117
    kv_pc             \* "scan", "post", "done", "raised" inside parse_mailchimp, "idle" otherwise

vars == <<file_contents, results, errors, campaigns_by_id, file_index, pc,
          lines, idx, data, campaign_title, id_args, kv_pc>>

batch_vars == <<file_contents, results, errors, campaigns_by_id, file_index, pc>>
kv_vars == <<lines, idx, data, campaign_title, id_args, kv_pc>>

----------------------------------------------------------------------------
\* Bounds of the model.

MaxFiles == 3        \* files in one batch
MaxBatchSize == 3    \* size of one batch: its campaigns, and one for each file without any
MaxLines == 3        \* lines of one key-value report

\* Program constants.
MAX_FILE_SIZE == 10 * 1024 * 1024
MAX_FILES == 12

\* Python's None and a present value: an optional is a sequence of length 0 or 1.
None == <<>>
Some(x) == <<x>>

----------------------------------------------------------------------------
\* Strings the code inspects character by character are sequences of characters.

Lower(c) ==
    CASE c = "B" -> "b"
      [] c = "C" -> "c"
      [] c = "S" -> "s"
      [] c = "V" -> "v"
      [] OTHER -> c

LowerStr(s) == [i \in DOMAIN s |-> Lower(s[i])]

EndsWith(s, suffix) ==
    /\ Len(s) >= Len(suffix)
    /\ SubSeq(s, Len(s) - Len(suffix) + 1, Len(s)) = suffix

DotCsv == <<".", "c", "s", "v">>

IsCsvName(filename) == EndsWith(LowerStr(filename), DotCsv)

Deduplicated == <<"d", "e", "d", "u", "p", "l", "i", "c", "a", "t", "e", "d">>

----------------------------------------------------------------------------
\* detect_and_parse

TabularSignature == {"Unique Id", "Send Date", "Open Rate"}
KeyValueSignature == {"Campaign report", "Campaign results"}

\* A text is the set of signature tokens it contains and what the parsers make of it:
\* text.parsed = [raised |-> an exception class or "none", campaigns |-> a sequence].
detect_and_parse(text) ==
    IF TabularSignature \subseteq text.tokens
    THEN [parser |-> "parse_mailchimp", raised |-> text.parsed.raised,
          campaigns |-> text.parsed.campaigns]
    ELSE IF KeyValueSignature \subseteq text.tokens
    THEN [parser |-> "parse_mailerlite_classic", raised |-> text.parsed.raised,
          campaigns |-> text.parsed.campaigns]
    ELSE [parser |-> "none", raised |-> "ValueError", campaigns |-> <<>>]

----------------------------------------------------------------------------
\* The accumulators of parse_report and one turn of its file loop.

\* campaigns_by_id is a sequence of [key, value] in insertion order.
DictKeys(d) == {d[i].key : i \in DOMAIN d}

DictGet(d, k) == d[CHOOSE i \in DOMAIN d : d[i].key = k].value

DictPut_mutant(d, k, v) == Append(d, [key |-> k, value |-> v])

DictPut(d, k, v) ==
    IF k \in DictKeys(d)
    THEN [i \in DOMAIN d |-> IF d[i].key = k THEN [key |-> k, value |-> v] ELSE d[i]]
    ELSE Append(d, [key |-> k, value |-> v])

\* if unique_id: a None or empty unique_id is falsy
Truthy(unique_id) == unique_id # None /\ unique_id[1] # ""

to_dict(campaign) == [unique_id |-> campaign.unique_id, row |-> campaign.row]

\* campaigns_by_id[unique_id].get("_file_index", -1)
StoredIndex(campaign_dict) ==
    IF "_file_index" \in DOMAIN campaign_dict THEN campaign_dict._file_index ELSE -1

Replaces(acc, unique_id) ==
    \/ unique_id \notin DictKeys(acc.campaigns_by_id)
    \/ acc.file_index > StoredIndex(DictGet(acc.campaigns_by_id, unique_id))

WithIndex(campaign_dict, i) ==
    [k \in DOMAIN campaign_dict \cup {"_file_index"} |->
        IF k = "_file_index" THEN i ELSE campaign_dict[k]]

Entry(filename, campaign_dict) ==
    [filename |-> filename, data |-> [campaign |-> campaign_dict]]

\* The body of the campaign loop for a campaign whose calls return.
MergeCampaign(acc, campaign, filename) ==
    IF ~campaign.meaningful THEN acc
    ELSE IF Truthy(campaign.unique_id)
    THEN IF Replaces(acc, campaign.unique_id[1])
         THEN [acc EXCEPT !.campaigns_by_id =
                  DictPut(@, campaign.unique_id[1],
                          WithIndex(to_dict(campaign), acc.file_index))]
         ELSE acc
    ELSE [acc EXCEPT !.results = Append(@, Entry(filename, to_dict(campaign)))]

\* The campaign loop from position i: it ends at the end of the list, or at the
\* first campaign whose has_meaningful_data() or to_dict() raises.
RECURSIVE MergeCampaigns(_, _, _, _)
MergeCampaigns(acc, campaigns, i, filename) ==
    IF i > Len(campaigns) THEN [acc |-> acc, raised |-> "none"]
    ELSE IF campaigns[i].raises THEN [acc |-> acc, raised |-> "Exception"]
    ELSE MergeCampaigns(MergeCampaign(acc, campaigns[i], filename),
                        campaigns, i + 1, filename)

\* The except clauses of the file loop, by the class of the exception.
ErrorText(raised) ==
    CASE raised = "EmptyReportError" -> "Empty report"
      [] raised = "UnsupportedFormatError" -> "Unsupported format"
      [] raised = "InvalidCampaignError" -> "Invalid campaign"
      [] raised = "ParseError" -> "Parse error"
      [] OTHER -> "Failed to parse"

AddError(acc, filename, text) ==
    [acc EXCEPT !.errors = Append(@, [filename |-> filename, error |-> text])]

\* How one turn of the file loop ends.
Outcome(file) ==
    IF ~IsCsvName(file.filename) THEN "not_csv"
    ELSE IF file.size > MAX_FILE_SIZE THEN "too_large"
    ELSE LET parsed == detect_and_parse(file.text) IN
         IF parsed.parser = "none" THEN "undetected"
         ELSE IF parsed.raised # "none" THEN "parser_raised"
         ELSE IF parsed.campaigns = <<>> THEN "no_campaigns"
         ELSE IF \E i \in DOMAIN parsed.campaigns : parsed.campaigns[i].raises
         THEN "loop_raised"
         ELSE "merged"

\* One turn of the file loop.
HandleFile(acc, file) ==
    IF ~IsCsvName(file.filename)
    THEN AddError(acc, file.filename, "Only CSV files supported")
    ELSE IF file.size > MAX_FILE_SIZE
    THEN AddError(acc, file.filename, "File too large")
    ELSE LET parsed == detect_and_parse(file.text) IN
         IF parsed.raised # "none"
         THEN AddError(acc, file.filename, ErrorText(parsed.raised))
         ELSE IF parsed.campaigns = <<>>
         THEN AddError(acc, file.filename, "No campaigns found in file")
         ELSE LET loop == MergeCampaigns(acc, parsed.campaigns, 1, file.filename) IN
              IF loop.raised # "none"
              THEN AddError(loop.acc, file.filename, ErrorText(loop.raised))
              ELSE [loop.acc EXCEPT !.file_index = @ + 1]

\* campaign.pop("_file_index", None)
PopIndex(campaign_dict) ==
    [k \in DOMAIN campaign_dict \ {"_file_index"} |-> campaign_dict[k]]

FinalEntry_mutant(item) == Entry(Deduplicated, item.value)

FinalEntry(item) == Entry(Deduplicated, PopIndex(item.value))

\* The loop over campaigns_by_id.items() after the file loop.
AppendDeduplicated(res, by_id) ==
    res \o [i \in 1..Len(by_id) |-> FinalEntry(by_id[i])]

----------------------------------------------------------------------------
\* The files a batch can hold.

NameA == <<"a", ".", "c", "s", "v">>
NameB == <<"B", ".", "C", "S", "V">>
NameTxt == <<"a", ".", "t", "x", "t">>

\* What a parser can return for one campaign: the unique_id it carries, whether
\* has_meaningful_data() holds, and whether a call on it inside the try block of
\* main.py:133-138 raises (the case the handler of main.py:172 is there for).
CampaignShapes ==
    {[unique_id |-> u, meaningful |-> TRUE, raises |-> FALSE] :
        u \in {None, Some(""), Some("X"), Some("Y")}}
    \cup {[unique_id |-> Some("X"), meaningful |-> FALSE, raises |-> FALSE]}
    \cup {[unique_id |-> None, meaningful |-> FALSE, raises |-> TRUE]}

\* The campaigns of the file at position p: campaign k is a record of its own, <<p, k>>.
CampaignLists(p, n) ==
    {[k \in 1..n |->
        [unique_id |-> shapes[k].unique_id, meaningful |-> shapes[k].meaningful,
         raises |-> shapes[k].raises, row |-> <<p, k>>]] :
     shapes \in [1..n -> CampaignShapes]}

ParserExceptions ==
    {"EmptyReportError", "UnsupportedFormatError", "InvalidCampaignError",
     "ParseError", "KeyError"}

Returned(campaigns) == [raised |-> "none", campaigns |-> campaigns]
Raised(class) == [raised |-> class, campaigns |-> <<>>]

NoText == [tokens |-> {}, parsed |-> Raised("EmptyReportError")]

\* Texts in which detection finds no full signature.
UndetectedTexts ==
    {[tokens |-> t, parsed |-> Raised("EmptyReportError")] :
        t \in {{}, {"Unique Id", "Send Date", "Campaign report"}}}

\* Files whose text a parser accepts: the signature goes with the name.
Sources ==
    {[filename |-> NameA, tokens |-> TabularSignature],
     [filename |-> NameB, tokens |-> KeyValueSignature \cup {"Unique Id"}]}

\* The files that can stand at position p, by the way their turn ends; `room` is
\* the number of campaigns the batch may still hold.
ParsedFiles(p, room) ==
    {[filename |-> s.filename, size |-> 1,
      text |-> [tokens |-> s.tokens, parsed |-> Returned(cs)]] :
        s \in Sources, cs \in UNION {CampaignLists(p, n) : n \in 1..room}}

FilesAt(outcome, p, room) ==
    CASE outcome = "not_csv" ->
            {[filename |-> NameTxt, size |-> 1, text |-> NoText]}
      [] outcome = "too_large" ->
            {[filename |-> NameA, size |-> MAX_FILE_SIZE + 1, text |-> NoText]}
      [] outcome = "undetected" ->
            {[filename |-> NameA, size |-> MAX_FILE_SIZE, text |-> t] :
                t \in UndetectedTexts}
      [] outcome = "parser_raised" ->
            {[filename |-> NameB, size |-> 1,
              text |-> [tokens |-> KeyValueSignature, parsed |-> Raised(c)]] :
                c \in ParserExceptions}
      [] outcome = "no_campaigns" ->
            {[filename |-> s.filename, size |-> 1,
              text |-> [tokens |-> s.tokens, parsed |-> Returned(<<>>)]] :
                s \in Sources}
      [] OTHER -> ParsedFiles(p, room)

\* The size of the files taken so far.
RECURSIVE BatchSize(_)
BatchSize(files) ==
    IF files = <<>> THEN 0
    ELSE (IF files[1].text.parsed.campaigns = <<>> THEN 1
          ELSE Len(files[1].text.parsed.campaigns))
         + BatchSize(Tail(files))

----------------------------------------------------------------------------
\* parse_report as a state machine: one action per way a turn of the file loop ends.

Acc ==
    [results |-> results, errors |-> errors,
     campaigns_by_id |-> campaigns_by_id, file_index |-> file_index]

Take(file) ==
    LET acc == HandleFile(Acc, file) IN
    /\ file_contents' = Append(file_contents, file)
    /\ results' = acc.results
    /\ errors' = acc.errors
    /\ campaigns_by_id' = acc.campaigns_by_id
    /\ file_index' = acc.file_index
    /\ pc' = pc
    /\ UNCHANGED kv_vars

Position == Len(file_contents) + 1
Room == MaxBatchSize - BatchSize(file_contents)

\* The checks of main.py:71-92 pass for every batch taken here: it holds at most
\* MaxFiles <= MAX_FILES files, none larger than MAX_FILE_SIZE + 1.
InFileLoop ==
    /\ pc = "loop"
    /\ Len(file_contents) < MaxFiles
    /\ MaxFiles <= MAX_FILES
    /\ Room >= 1

\* main.py:100-105
RejectExtension ==
    /\ InFileLoop
    /\ \E file \in FilesAt("not_csv", Position, Room) :
          Outcome(file) = "not_csv" /\ Take(file)

\* main.py:107-112
RejectSize ==
    /\ InFileLoop
    /\ \E file \in FilesAt("too_large", Position, Room) :
          Outcome(file) = "too_large" /\ Take(file)

\* main.py:124 raising in detect_and_parse itself
DetectionFails ==
    /\ InFileLoop
    /\ \E file \in FilesAt("undetected", Position, Room) :
          Outcome(file) = "undetected" /\ Take(file)

\* main.py:124 raising in the parser
ParserRaises ==
    /\ InFileLoop
    /\ \E file \in FilesAt("parser_raised", Position, Room) :
          Outcome(file) = "parser_raised" /\ Take(file)

\* main.py:126-131
NoCampaigns ==
    /\ InFileLoop
    /\ \E file \in FilesAt("no_campaigns", Position, Room) :
          Outcome(file) = "no_campaigns" /\ Take(file)

\* main.py:133-148 raising, caught at main.py:172
CampaignLoopRaises ==
    /\ InFileLoop
    /\ \E file \in FilesAt("loop_raised", Position, Room) :
          Outcome(file) = "loop_raised" /\ Take(file)

\* main.py:133-150
MergeFile ==
    /\ InFileLoop
    /\ \E file \in FilesAt("merged", Position, Room) :
          Outcome(file) = "merged" /\ Take(file)

\* main.py:178-188
Return ==
    /\ pc = "loop"
    /\ results' = AppendDeduplicated(results, campaigns_by_id)
    /\ campaigns_by_id' =
          [i \in 1..Len(campaigns_by_id) |->
              [key |-> campaigns_by_id[i].key, value |-> PopIndex(campaigns_by_id[i].value)]]
    /\ pc' = "done"
    /\ UNCHANGED <<file_contents, errors, file_index>>
    /\ UNCHANGED kv_vars

KvIdle ==
    /\ lines = <<>>
    /\ idx = 0
    /\ data = <<>>
    /\ campaign_title = None
    /\ id_args = <<>>
    /\ kv_pc = "idle"

Init ==
    /\ file_contents = <<>>
    /\ results = <<>>
    /\ errors = <<>>
    /\ campaigns_by_id = <<>>
    /\ file_index = 0
    /\ pc = "loop"
    /\ KvIdle

Next ==
    \/ RejectExtension
    \/ RejectSize
    \/ DetectionFails
    \/ ParserRaises
    \/ NoCampaigns
    \/ CampaignLoopRaises
    \/ MergeFile
    \/ Return

Spec == Init /\ [][Next]_vars

----------------------------------------------------------------------------
\* What the claims about parse_report speak of.

Files == DOMAIN file_contents

Merged(p) == Outcome(file_contents[p]) = "merged"

\* The campaigns the parser returned for file p.
FileCampaigns(p) ==
    IF Outcome(file_contents[p]) \in {"merged", "loop_raised"}
    THEN file_contents[p].text.parsed.campaigns
    ELSE <<>>

\* The positions in file p the campaign loop gets to.
Reached(p) ==
    {k \in DOMAIN FileCampaigns(p) : \A j \in 1..k : ~FileCampaigns(p)[j].raises}

\* The meaningful campaigns of file p under unique_id u that the loop gets to.
Carrying(p, u) ==
    {k \in Reached(p) :
        FileCampaigns(p)[k].meaningful /\ FileCampaigns(p)[k].unique_id = Some(u)}

UsedIds == {"X", "Y"}

ResultCampaign(i) == results[i].data.campaign

RecordsUnder(u) == {i \in DOMAIN results : ResultCampaign(i).unique_id = Some(u)}

\* The entry of the error list that file p produced.
ErrorOf(p) == errors[Cardinality({q \in 1..p : ~Merged(q)})]

C2_LastFileWins ==
    pc = "done" =>
        \A u \in UsedIds : \A a, b \in Files :
            (a < b /\ Carrying(a, u) # {} /\ Carrying(b, u) # {}) =>
                /\ Cardinality(RecordsUnder(u)) = 1
                /\ \A i \in RecordsUnder(u) : \A q \in Files :
                      Carrying(q, u) # {} => q <= ResultCampaign(i).row[1]

\* C3: when a unique_id occurs more than once in the file its record comes from, the
\* record is the last occurrence in that file.
C3_LaterOccurrenceWins ==
    pc = "done" =>
        \A u \in UsedIds : \A i \in RecordsUnder(u) :
            LET p == ResultCampaign(i).row[1] IN
            \A k \in Carrying(p, u) : k <= ResultCampaign(i).row[2]

\* The batch with every file that did not merge replaced by a file without campaigns.
WithoutFailed(files) ==
    [p \in DOMAIN files |->
        IF Outcome(files[p]) = "merged" THEN files[p]
        ELSE [files[p] EXCEPT !.text.parsed = Returned(<<>>)]]

EmptyAcc == [results |-> <<>>, errors |-> <<>>, campaigns_by_id |-> <<>>, file_index |-> 0]

RECURSIVE RunFiles(_, _, _)
RunFiles(acc, files, i) ==
    IF i > Len(files) THEN acc
    ELSE RunFiles(HandleFile(acc, files[i]), files, i + 1)

C5_UnsupportedFormat ==
    \A p \in Files :
        LET file == file_contents[p] IN
        (/\ IsCsvName(file.filename)
         /\ file.size <= MAX_FILE_SIZE
         /\ ~(TabularSignature \subseteq file.text.tokens)
         /\ ~(KeyValueSignature \subseteq file.text.tokens))
            => /\ detect_and_parse(file.text).parser = "none"
               /\ ErrorOf(p).error = "Unsupported format"

\* C8: in the returned results the entries without a unique_id come first, in the order
\* of their files and campaigns and under their file's name, every entry with a
\* unique_id is labelled "deduplicated", and no campaign holds _file_index.
C8_ResultOrder ==
    pc = "done" =>
        /\ \A i, j \in DOMAIN results :
              (i < j /\ Truthy(ResultCampaign(i).unique_id))
                  => Truthy(ResultCampaign(j).unique_id)
        /\ \A i, j \in DOMAIN results :
              (i < j /\ ~Truthy(ResultCampaign(j).unique_id)) =>
                  \/ ResultCampaign(i).row[1] < ResultCampaign(j).row[1]
                  \/ /\ ResultCampaign(i).row[1] = ResultCampaign(j).row[1]
                     /\ ResultCampaign(i).row[2] < ResultCampaign(j).row[2]
        /\ \A i \in DOMAIN results :
              /\ results[i].filename =
                    IF Truthy(ResultCampaign(i).unique_id) THEN Deduplicated
                    ELSE file_contents[ResultCampaign(i).row[1]].filename
              /\ "_file_index" \notin DOMAIN ResultCampaign(i)

C8_Witness ==
    /\ pc = "done"
    /\ \E i, j, k \in DOMAIN results :
          /\ i < j /\ j < k
          /\ ResultCampaign(i).unique_id = None
          /\ ResultCampaign(j).unique_id = Some("")
          /\ ResultCampaign(i).row[1] < ResultCampaign(j).row[1]
          /\ results[i].filename # results[j].filename
          /\ Truthy(ResultCampaign(k).unique_id)

\* C10: a file that ends in the error list is the source of no record, neither in
\* campaigns_by_id nor in the results, and file_index counts the files that merged.
C10_FileAtomicity ==
    /\ file_index = Cardinality({p \in Files : Merged(p)})
    /\ \A p \in Files : ~Merged(p) =>
          /\ \A i \in DOMAIN results : ResultCampaign(i).row[1] # p
          /\ \A i \in DOMAIN campaigns_by_id : campaigns_by_id[i].value.row[1] # p

----------------------------------------------------------------------------
\* app/parsers/mailchimp.py. A text value is a sequence of characters.

Digits == {"0", "1", "2", "3", "4", "5", "6", "7", "8", "9"}

DigitValue(c) ==
    CASE c = "0" -> 0 [] c = "1" -> 1 [] c = "2" -> 2 [] c = "3" -> 3 [] c = "4" -> 4
      [] c = "5" -> 5 [] c = "6" -> 6 [] c = "7" -> 7 [] c = "8" -> 8 [] c = "9" -> 9

NotComma(c) == c # ","
IsDigit(c) == c \in Digits

\* value.replace(',', '')
RemoveCommas(s) == SelectSeq(s, NotComma)

RECURSIVE DecimalValue(_)
DecimalValue(s) ==
    IF s = <<>> THEN 0
    ELSE 10 * DecimalValue(SubSeq(s, 1, Len(s) - 1)) + DigitValue(s[Len(s)])

\* int(s): [raised |-> TRUE] stands for the ValueError of a text that is no number.
ToInt(s) ==
    IF s # <<>> /\ \A i \in DOMAIN s : s[i] \in Digits
    THEN [raised |-> FALSE, value |-> DecimalValue(s)]
    ELSE [raised |-> TRUE, value |-> 0]

RECURSIVE Gcd(_, _)
Gcd(a, b) == IF b = 0 THEN a ELSE Gcd(b, a % b)

\* The number n / d, as a fraction in lowest terms.
Ratio(n, d) == <<n \div Gcd(n, d), d \div Gcd(n, d)>>

Zero == <<0, 1>>

RECURSIVE Power10(_)
Power10(k) == IF k = 0 THEN 1 ELSE 10 * Power10(k - 1)

\* float(s) / 100 for a text of digits and dots.
ToPercent(s) ==
    LET dots == {i \in DOMAIN s : s[i] = "."}
        digits == SelectSeq(s, IsDigit)
    IN  IF Cardinality(dots) > 1 \/ digits = <<>>
        THEN [raised |-> TRUE, value |-> Zero]
        ELSE LET after == IF dots = {} THEN 0
                          ELSE Len(s) - (CHOOSE i \in dots : TRUE)
             IN [raised |-> FALSE,
                 value |-> Ratio(DecimalValue(digits), Power10(after) * 100)]

\* The end of the longest run of characters of `set` that starts at position i.
RunEnd(s, i, set) ==
    CHOOSE j \in i..Len(s) :
        /\ \A k \in i..j : s[k] \in set
        /\ (j = Len(s) \/ s[j + 1] \notin set)

\* re.search(r'([\d,]+)', value)
NumberMatch(value) ==
    LET starts == {i \in DOMAIN value : value[i] \in Digits \cup {","}} IN
    IF starts = {} THEN None
    ELSE LET i == CHOOSE x \in starts : \A y \in starts : x <= y
         IN Some(SubSeq(value, i, RunEnd(value, i, Digits \cup {","})))

\* re.search(r'\(([\d.]+)%\)', value)
PercentMatch(value) ==
    LET starts == {i \in DOMAIN value :
                      /\ value[i] = "("
                      /\ i + 1 <= Len(value)
                      /\ value[i + 1] \in Digits \cup {"."}
                      /\ LET j == RunEnd(value, i + 1, Digits \cup {"."}) IN
                         /\ j + 2 <= Len(value)
                         /\ value[j + 1] = "%"
                         /\ value[j + 2] = ")"}
    IN  IF starts = {} THEN None
        ELSE LET i == CHOOSE x \in starts : \A y \in starts : x <= y
             IN Some(SubSeq(value, i + 1, RunEnd(value, i + 1, Digits \cup {"."})))

extract_number_and_percent(value) ==
    IF value = <<>> THEN [raised |-> FALSE, num |-> None, pct |-> None]
    ELSE LET num_match == NumberMatch(value)
             pct_match == PercentMatch(value)
             num == IF num_match = None THEN [raised |-> FALSE, value |-> 0]
                    ELSE ToInt(RemoveCommas(num_match[1]))
             pct == IF pct_match = None THEN [raised |-> FALSE, value |-> Zero]
                    ELSE ToPercent(pct_match[1])
         IN [raised |-> num.raised \/ (~num.raised /\ pct.raised),
             num |-> IF num_match = None THEN None ELSE Some(num.value),
             pct |-> IF pct_match = None THEN None ELSE Some(pct.value)]

\* The characters sanitize_title keeps: \w, \s and - . , ! ?
WordCharacters == {"a", "b", "U", "n", "t", "i", "l", "e", "d", "_"} \cup Digits
SpaceCharacters == {" "}
Punctuation == {"-", ".", ",", "!", "?"}

IsKept(c) == c \in WordCharacters \cup SpaceCharacters \cup Punctuation

\* re.sub(r'\s+', ' ', cleaned)
RECURSIVE CollapseSpaces(_)
CollapseSpaces(s) ==
    IF Len(s) <= 1 THEN s
    ELSE IF s[1] \in SpaceCharacters /\ s[2] \in SpaceCharacters
    THEN CollapseSpaces(Tail(s))
    ELSE <<s[1]>> \o CollapseSpaces(Tail(s))

\* str.strip()
RECURSIVE Strip(_)
Strip(s) ==
    IF s = <<>> THEN s
    ELSE IF s[1] \in SpaceCharacters THEN Strip(Tail(s))
    ELSE IF s[Len(s)] \in SpaceCharacters THEN Strip(SubSeq(s, 1, Len(s) - 1))
    ELSE s

Untitled == <<"U", "n", "t", "i", "t", "l", "e", "d">>

\* subject is None or Some(text).
sanitize_title(subject) ==
    IF subject = None \/ subject[1] = <<>> THEN Untitled
    ELSE LET cleaned == Strip(CollapseSpaces(SelectSeq(subject[1], IsKept))) IN
         IF cleaned # <<>> THEN cleaned ELSE Untitled

\* A line is its quoted cells: `first` is the first cell without the colons around it,
\* `rest` the cells after it. parse_kv gives the key and the stripped second part, or
\* no key when fewer than two parts are left.
NotBlank(cell) == Strip(cell) # <<>>

parse_kv(line) ==
    LET last == Len(line.rest)
        \* a blank cell is dropped, but for the last one, which holds the closing quote
        kept == SelectSeq([i \in 1..last |-> [at |-> i, cell |-> line.rest[i]]],
                          LAMBDA c : c.at = last \/ NotBlank(c.cell))
    IN  IF kept = <<>> THEN [key |-> "", val |-> <<>>]
        ELSE [key |-> line.first, val |-> Strip(kept[1].cell)]

\* line.startswith('"Clicks by URL"') or line.startswith('"URL"')
IsSectionMarker_mutant(line) == line.first = "Clicks by URL"

IsSectionMarker(line) == line.first = "Clicks by URL" \/ line.first = "URL"

\* mailchimp.py:43-64
InitialData ==
    [platform |-> Some("mailchimp"), subject |-> None, email_title |-> None,
     unique_id |-> None, sent_at |-> None, delivered |-> None, opens |-> None,
     open_rate |-> None, clicks |-> None, click_rate |-> None, unsubscribes |-> None,
     unsubscribe_rate |-> None, spam_complaints |-> None, bounces |-> None,
     bounce_rate |-> None, hard_bounces |-> None, hard_bounce_rate |-> None,
     soft_bounces |-> None, soft_bounce_rate |-> None, ctor |-> None]

\* The state of the scan: the dict, the local campaign_title, and whether a
\* conversion raised.
Scan(d, title, raised) == [data |-> d, campaign_title |-> title, raised |-> raised]

\* int(val.replace(',', '')) if val != "0" else 0
CountOrZero(val) ==
    IF val = <<"0">> THEN [raised |-> FALSE, value |-> 0] ELSE ToInt(RemoveCommas(val))

\* The if/elif chain of the line loop for one key and value.
ApplyPair(st, key, val) ==
    LET d == st.data IN
    CASE key = "Title" ->
            Scan([d EXCEPT !.unique_id = Some(val)], Some(val), FALSE)
      [] key = "Subject Line" ->
            Scan([d EXCEPT !.subject = Some(val)], st.campaign_title, FALSE)
      [] key = "Delivery Date/Time" ->
            Scan([d EXCEPT !.sent_at = Some(val)], st.campaign_title, FALSE)
      [] key = "Successful Deliveries" ->
            LET n == ToInt(RemoveCommas(val)) IN
            IF n.raised THEN Scan(d, st.campaign_title, TRUE)
            ELSE Scan([d EXCEPT !.delivered = Some(n.value)], st.campaign_title, FALSE)
      [] key = "Recipients Who Opened" ->
            LET e == extract_number_and_percent(val) IN
            IF e.raised THEN Scan(d, st.campaign_title, TRUE)
            ELSE Scan([d EXCEPT !.opens = e.num, !.open_rate = e.pct],
                      st.campaign_title, FALSE)
      [] key = "Recipients Who Clicked" ->
            LET e == extract_number_and_percent(val) IN
            IF e.raised THEN Scan(d, st.campaign_title, TRUE)
            ELSE Scan([d EXCEPT !.clicks = e.num, !.click_rate = e.pct],
                      st.campaign_title, FALSE)
      [] key = "Total Unsubs" ->
            LET n == CountOrZero(val) IN
            IF n.raised THEN Scan(d, st.campaign_title, TRUE)
            ELSE Scan([d EXCEPT !.unsubscribes = Some(n.value)], st.campaign_title, FALSE)
      [] key = "Total Abuse Complaints" ->
            LET n == CountOrZero(val) IN
            IF n.raised THEN Scan(d, st.campaign_title, TRUE)
            ELSE Scan([d EXCEPT !.spam_complaints = Some(n.value)],
                      st.campaign_title, FALSE)
      [] key = "Bounces" ->
            LET e == extract_number_and_percent(val) IN
            IF e.raised THEN Scan(d, st.campaign_title, TRUE)
            ELSE Scan([d EXCEPT !.bounces = e.num, !.bounce_rate = e.pct],
                      st.campaign_title, FALSE)
      [] OTHER -> st

\* if data[k]: the count is there and is not 0
Nonzero(count) == count # None /\ count[1] # 0

\* mailchimp.py:104-106
WithCtor(d) ==
    IF Nonzero(d.opens) /\ Nonzero(d.clicks) /\ d.opens[1] > 0
    THEN [d EXCEPT !.ctor = Some(Ratio(d.clicks[1], d.opens[1]))]
    ELSE d

\* mailchimp.py:108-110
WithUnsubscribeRate(d) ==
    IF Nonzero(d.delivered) /\ d.unsubscribes # None /\ d.delivered[1] > 0
    THEN [d EXCEPT !.unsubscribe_rate = Some(Ratio(d.unsubscribes[1], d.delivered[1]))]
    ELSE d

\* data.get(key, default)
DictGetOr(d, key, default) == IF key \in DOMAIN d THEN d[key] ELSE default

\* mailchimp.py:113
TitleOf(d) == sanitize_title(DictGetOr(d, "title", Some(<<>>)))

\* The digest of (title, subject, sent_at, platform): equal arguments, equal digest.
generate_unique_id(title, subject, sent_at, platform) ==
    <<"digest", title, subject, sent_at, platform>>

IdArguments(d) ==
    <<TitleOf(d), DictGetOr(d, "subject", Some(<<>>)),
      DictGetOr(d, "sent_at", Some(<<>>)), "mailchimp">>

\* mailchimp.py:104-122
Finish(d) ==
    LET args == IdArguments(d)
        rated == WithUnsubscribeRate(WithCtor(d))
    IN [rated EXCEPT !.email_title = Some(args[1]),
                     !.unique_id = Some(generate_unique_id(args[1], args[2], args[3], args[4]))]

\* The line loop from position i on, as a function of the lines.
RECURSIVE ScanFrom(_, _, _)
ScanFrom(st, ls, i) ==
    IF i > Len(ls) \/ st.raised THEN st
    ELSE IF IsSectionMarker(ls[i]) THEN st
    ELSE LET kv == parse_kv(ls[i]) IN
         IF kv.key = "" THEN ScanFrom(st, ls, i + 1)
         ELSE ScanFrom(ApplyPair(st, kv.key, kv.val), ls, i + 1)

\* What parse_mailchimp gives for the lines ls: the campaign, or raised.
parse_mailchimp(ls) ==
    LET st == ScanFrom(Scan(InitialData, None, FALSE), ls, 1) IN
    IF st.raised THEN [raised |-> TRUE, campaign |-> st.data]
    ELSE [raised |-> FALSE, campaign |-> Finish(st.data)]

----------------------------------------------------------------------------
\* The reports the parser is run on.

Text(first, values) == {[first |-> first, rest |-> <<v>>] : v \in values}

Compound(n, p) == <<n, " ", "(">> \o p \o <<"%", ")">>

ReportLines ==
    Text("Title", {<<"a">>, <<"#">>, <<"a", " ", " ", "b", "#">>})
    \cup Text("Subject Line", {<<"a">>})
    \cup Text("Delivery Date/Time", {<<"1">>})
    \cup Text("Successful Deliveries", {<<"0">>, <<"1", ",", "0">>, <<"a">>})
    \cup Text("Recipients Who Opened", {Compound("4", <<"4", "0", ".", "0">>), <<"0">>})
    \cup Text("Recipients Who Clicked", {Compound("2", <<"2", "0">>), Compound("0", <<"0">>)})
    \cup Text("Total Unsubs", {<<"0">>, <<"5">>})
    \cup Text("Total Abuse Complaints", {<<"1">>})
    \cup Text("Bounces", {<<"(", "5", "%", ")">>})
    \cup {[first |-> "Clicks by URL", rest |-> <<>>]}
    \cup Text("URL", {<<"1">>})
    \cup {[first |-> "Email", rest |-> <<>>]}

Reports == UNION {[1..n -> ReportLines] : n \in 0..MaxLines}

----------------------------------------------------------------------------
\* parse_mailchimp as a state machine: the line loop one line at a time.

BatchIdle ==
    /\ file_contents = <<>>
    /\ results = <<>>
    /\ errors = <<>>
    /\ campaigns_by_id = <<>>
    /\ file_index = 0
    /\ pc = "idle"

InitKV ==
    /\ BatchIdle
    /\ lines \in Reports
    /\ idx = 1
    /\ data = InitialData
    /\ campaign_title = None
    /\ id_args = <<>>
    /\ kv_pc = "scan"

Scanning == kv_pc = "scan" /\ idx <= Len(lines)

\* mailchimp.py:70-71
Break ==
    /\ Scanning
    /\ IsSectionMarker(lines[idx])
    /\ kv_pc' = "post"
    /\ UNCHANGED <<lines, idx, data, campaign_title, id_args>>
    /\ UNCHANGED batch_vars

\* mailchimp.py:73-76
SkipLine ==
    /\ Scanning
    /\ ~IsSectionMarker(lines[idx])
    /\ parse_kv(lines[idx]).key = ""
    /\ idx' = idx + 1
    /\ UNCHANGED <<lines, data, campaign_title, id_args, kv_pc>>
    /\ UNCHANGED batch_vars

\* mailchimp.py:78-102
ReadPair ==
    /\ Scanning
    /\ ~IsSectionMarker(lines[idx])
    /\ LET kv == parse_kv(lines[idx])
           st == ApplyPair(Scan(data, campaign_title, FALSE), kv.key, kv.val)
       IN /\ kv.key # ""
          /\ ~st.raised
          /\ data' = st.data
          /\ campaign_title' = st.campaign_title
    /\ idx' = idx + 1
    /\ UNCHANGED <<lines, id_args, kv_pc>>
    /\ UNCHANGED batch_vars

\* A conversion of mailchimp.py:86-100 raising ValueError out of parse_mailchimp.
ConversionRaises ==
    /\ Scanning
    /\ ~IsSectionMarker(lines[idx])
    /\ LET kv == parse_kv(lines[idx]) IN
          /\ kv.key # ""
          /\ ApplyPair(Scan(data, campaign_title, FALSE), kv.key, kv.val).raised
    /\ kv_pc' = "raised"
    /\ UNCHANGED <<lines, idx, data, campaign_title, id_args>>
    /\ UNCHANGED batch_vars

\* The line loop running out of lines.
EndOfLines ==
    /\ kv_pc = "scan"
    /\ idx > Len(lines)
    /\ kv_pc' = "post"
    /\ UNCHANGED <<lines, idx, data, campaign_title, id_args>>
    /\ UNCHANGED batch_vars

\* mailchimp.py:104-126
Finalize ==
    /\ kv_pc = "post"
    /\ id_args' = IdArguments(data)
    /\ data' = Finish(data)
    /\ kv_pc' = "done"
    /\ UNCHANGED <<lines, idx, campaign_title>>
    /\ UNCHANGED batch_vars

NextKV ==
    \/ Break
    \/ SkipLine
    \/ ReadPair
    \/ ConversionRaises
    \/ EndOfLines
    \/ Finalize

SpecKV == InitKV /\ [][NextKV]_vars

----------------------------------------------------------------------------
\* What the claims about parse_mailchimp speak of.

Positive(count) == count # None /\ count[1] > 0

\* C6: in the campaign the key-value parser returns, ctor is clicks / opens when opens
\* is positive and 0 otherwise, unsubscribe_rate is unsubscribes / delivered when
\* delivered is positive and 0 otherwise, and a report with 0 deliveries and no opens
\* or clicks has open_rate and unsubscribe_rate 0, not None.
C6_ZeroDenominatorRule ==
    kv_pc = "done" =>
        /\ (Positive(data.opens) /\ data.clicks # None)
              => data.ctor = Some(Ratio(data.clicks[1], data.opens[1]))
        /\ ~Positive(data.opens) => data.ctor = Some(Zero)
        /\ (Positive(data.delivered) /\ data.unsubscribes # None)
              => data.unsubscribe_rate = Some(Ratio(data.unsubscribes[1], data.delivered[1]))
        /\ ~Positive(data.delivered) => data.unsubscribe_rate = Some(Zero)
        /\ (data.delivered = Some(0) /\ data.opens = None /\ data.clicks = None)
              => data.open_rate = Some(Zero) /\ data.unsubscribe_rate = Some(Zero)

\* C7: email_title and the first argument of the identity digest are the sanitized
\* Title field of the report, and "Untitled" only when the report has no Title or its
\* Title sanitizes to nothing.
C7_TitleFromReport ==
    kv_pc = "done" =>
        /\ data.email_title = Some(sanitize_title(campaign_title))
        /\ id_args[1] = sanitize_title(campaign_title)

IsDetailMarker(line) == line.first \in {"Clicks by URL", "URL"}

FirstMarker(ls) ==
    IF \E i \in DOMAIN ls : IsDetailMarker(ls[i])
    THEN CHOOSE i \in DOMAIN ls :
            IsDetailMarker(ls[i]) /\ \A j \in 1..(i - 1) : ~IsDetailMarker(ls[j])
    ELSE Len(ls) + 1

BeforeMarker(ls) == SubSeq(ls, 1, FirstMarker(ls) - 1)

\* C9: the line loop never goes past the first section marker, and what the parser
\* gives for a report is what it gives for the lines before that marker alone.
C9_StopsAtMarker ==
    /\ kv_pc # "idle" => idx <= FirstMarker(lines)
    /\ kv_pc \in {"done", "raised"} =>
          LET alone == parse_mailchimp(BeforeMarker(lines)) IN
          /\ (kv_pc = "raised") = alone.raised
          /\ data = alone.campaign

C9_Witness ==
    /\ kv_pc = "done"
    /\ Len(lines) = 3
    /\ lines[1].first = "Subject Line"
    /\ lines[2].first = "URL" /\ lines[2].rest # <<>>
    /\ lines[3].first = "Successful Deliveries"
    /\ ToInt(RemoveCommas(lines[3].rest[1])).value > 0
    /\ data.subject # None
    /\ data.delivered = None

====
